---- MODULE Spec2Model ----
(***************************************************************************)
(* A model of the configs_manager web application of llm-router-web:       *)
(* the relational store (User, Project, Config, Model, Provider,           *)
(* ActiveModel, ConfigVersion), the browser sessions, and the request      *)
(* handlers of routes.py with the snapshot engine of utils.py.             *)
(*                                                                         *)
(* The store is one variable, db, a record of tables; a table is a set of  *)
(* rows, each a record with an integer primary key "id".  A handler is a   *)
(* sequence of transactions, each ended by db.session.commit().  The       *)
(* sequential specifications run a handler as one step; the concurrent     *)
(* ones run it one transaction (or one read / one write) at a time.        *)
(***************************************************************************)
EXTENDS Integers, Sequences, FiniteSets, TLC

VARIABLES
    db,        \* the committed content of the database
    sessions,  \* the signed session cookie of each browser
    procs,     \* the requests in flight: position and locals of each worker
    last       \* the response the handler that just ran is returning

vars == <<db, sessions, procs, last>>

(***************************************************************************)
(* Bounds of the model.                                                    *)
(***************************************************************************)
MaxUsers == 2
MaxProjects == 3
MaxConfigs == 1
MaxEditConfigs == 1
MaxShelfConfigs == 3
MaxModels == 2
MaxProviders == 2
MaxVersions == 3
MaxActives == 4
MaxLazyProjects == 3
MaxModelConfigs == 2
MaxModelRows == 3
MaxModelVersions == 4
MaxTripConfigs == 2
MaxTripProviders == 4
MaxTripVersions == 2
MaxReorderProviders == 3
MaxReorderVersions == 4

Sessions == {1, 2}
Procs == {1, 2, 3}
\* the workers that serve the requests on configs, and the browser that
\* sends them
Workers == {1, 2}
WorkerSessions == {1}
\* the update a worker is asked for
WorkerPayloads == {[weight |-> 0]}

(***************************************************************************)
(* Program constants.                                                      *)
(***************************************************************************)
DefaultInputSize == 4096
DefaultWeight == 1
Families == <<"google_models", "openai_models", "qwen_models">>
VALID_FAMILIES == {"google_models", "openai_models", "qwen_models"}
ApiTypes == {"vllm", "openai", "ollama"}
DefaultProjectName == "default_project"

(***************************************************************************)
(* Generic helpers.                                                        *)
(***************************************************************************)
Max(S) == CHOOSE m \in S : \A x \in S : x <= m
Min(S) == CHOOSE m \in S : \A x \in S : m <= x

Range(f) == {f[i] : i \in DOMAIN f}

\* dict.get(key, default) of a parsed JSON object
Get(obj, k, d) == IF k \in DOMAIN obj THEN obj[k] ELSE d

\* Python's "x or d" on a number: 0 is falsy
OrElse(x, d) == IF x = 0 THEN d ELSE x

Ids(table) == {r.id : r \in table}
Row(table, id) == CHOOSE r \in table : r.id = id

\* INTEGER PRIMARY KEY of SQLite (the default DATABASE_URL): the next rowid
\* is one more than the largest rowid in the table.
NextId(table) == IF table = {} THEN 1 ELSE Max(Ids(table)) + 1

\* The rows of a table in primary-key order.
RECURSIVE RowsById(_)
RowsById(S) ==
    IF S = {} THEN <<>>
    ELSE LET r == CHOOSE x \in S : \A y \in S : x.id <= y.id
         IN <<r>> \o RowsById(S \ {r})

\* ORDER BY Provider.order; rows with equal order come in rowid order.
RECURSIVE RowsByOrder(_)
RowsByOrder(S) ==
    IF S = {} THEN <<>>
    ELSE LET r == CHOOSE x \in S : \A y \in S :
                     \/ x.order < y.order
                     \/ (x.order = y.order /\ x.id <= y.id)
         IN <<r>> \o RowsByOrder(S \ {r})

\* d[k] = v on an insertion-ordered dict kept as a sequence of [name, val]
DictSet(d, k, v) ==
    IF \E i \in DOMAIN d : d[i].name = k
    THEN [i \in DOMAIN d |-> IF d[i].name = k THEN [name |-> k, val |-> v] ELSE d[i]]
    ELSE Append(d, [name |-> k, val |-> v])

EmptyDb ==
    [users |-> {}, projects |-> {}, configs |-> {}, models |-> {},
     providers |-> {}, actives |-> {}, versions |-> {}]

(***************************************************************************)
(* utils.py: to_json                                                       *)
(***************************************************************************)
ModelsOf(d, cid) == {m \in d.models : m.config_id = cid}
ProvidersOf(d, mid) == {p \in d.providers : p.model_id = mid}
ActivesOf(d, cid) == {a \in d.actives : a.config_id = cid}
VersionsOf(d, cid) == {v \in d.versions : v.config_id = cid}

\* the weight key is written for a vllm provider or a weight other than 1.0
ProviderJson(p) ==
    IF p.api_type = "vllm" \/ p.weight # DefaultWeight
    THEN [id |-> p.provider_id, api_host |-> p.api_host,
          api_token |-> p.api_token, api_type |-> p.api_type,
          input_size |-> p.input_size, model_path |-> p.model_path,
          weight |-> p.weight]
    ELSE [id |-> p.provider_id, api_host |-> p.api_host,
          api_token |-> p.api_token, api_type |-> p.api_type,
          input_size |-> p.input_size, model_path |-> p.model_path]

\* every provider serialized, enabled or not
SerializedProviders_All(ps) == ps

\* only the enabled providers of a model are serialized
SerializedProviders(ps) == SelectSeq(ps, LAMBDA p : p.enabled)

ModelProvidersJson(d, m) ==
    LET ps == SerializedProviders(RowsByOrder(ProvidersOf(d, m.id)))
    IN [i \in DOMAIN ps |-> ProviderJson(ps[i])]

RECURSIVE FamilyJsonFrom(_, _, _)
FamilyJsonFrom(d, ms, acc) ==
    IF ms = <<>> THEN acc
    ELSE FamilyJsonFrom(d, Tail(ms),
             DictSet(acc, Head(ms).name,
                     [providers |-> ModelProvidersJson(d, Head(ms))]))

FamilyJson(d, cid, fam) ==
    FamilyJsonFrom(d, RowsById({m \in ModelsOf(d, cid) : m.family = fam}), <<>>)

ActiveJson(d, cid, fam) ==
    LET as == RowsById({a \in ActivesOf(d, cid) : a.family = fam})
    IN [i \in DOMAIN as |-> as[i].model_name]

to_json(d, cid) ==
    [google_models |-> FamilyJson(d, cid, "google_models"),
     openai_models |-> FamilyJson(d, cid, "openai_models"),
     qwen_models |-> FamilyJson(d, cid, "qwen_models"),
     active_models |->
        [google_models |-> ActiveJson(d, cid, "google_models"),
         openai_models |-> ActiveJson(d, cid, "openai_models"),
         qwen_models |-> ActiveJson(d, cid, "qwen_models")]]

(***************************************************************************)
(* utils.py: snapshot_version                                              *)
(***************************************************************************)
\* func.max(ConfigVersion.version) ... .scalar() or 0
LastVersion(d, cid) ==
    IF VersionsOf(d, cid) = {} THEN 0
    ELSE Max({v.version : v \in VersionsOf(d, cid)})

\* the number of the last version taken again for the new row
NextVersionNumber_NoIncrement(lastv) == lastv

NextVersionNumber(lastv) == lastv + 1

\* the new row put in the place of the config's earlier versions
InsertVersion_Overwrite(d, cid, note, payload, lastv) ==
    [d EXCEPT !.versions = {v \in @ : v.config_id # cid} \cup
        {[id |-> NextId(@), config_id |-> cid,
          version |-> NextVersionNumber(lastv), note |-> note,
          json_blob |-> payload]}]

\* db.session.add(v); db.session.commit()
InsertVersion(d, cid, note, payload, lastv) ==
    [d EXCEPT !.versions = @ \cup
        {[id |-> NextId(@), config_id |-> cid,
          version |-> NextVersionNumber(lastv), note |-> note,
          json_blob |-> payload]}]

\* the read and the insert of one call, run without another request between
snapshot_version(d, cid, note) ==
    InsertVersion(d, cid, note, to_json(d, cid), LastVersion(d, cid))

(***************************************************************************)
(* routes.py: what a handler returns.  db and sess are the store and the   *)
(* session cookie it leaves; code is the HTTP status; ok tells a success   *)
(* from a refusal (a redirect carries its flash category).                 *)
(***************************************************************************)
Res(d, se, code, ok) == [db |-> d, sess |-> se, code |-> code, ok |-> ok]

NoSession == [user_id |-> 0, role |-> "", project_id |-> 0]

\* ensure_initial_user: with no user every endpoint but setup redirects to
\* setup; without user_id in the session every endpoint but login and setup
\* redirects to login.
Admitted(d, se) == d.users # {} /\ se.user_id # 0

\* Project.query.filter_by(user_id=user_id, is_default=True)
DefaultProjectsOf(d, uid) ==
    {p \in d.projects : p.user_id = uid /\ p.is_default}

\* the project created on the fly, added without the default flag
LazyDefaultProject_NotFlagged(d, uid) ==
    [d EXCEPT !.projects = @ \cup
        {[id |-> NextId(@), name |-> DefaultProjectName, user_id |-> uid,
          is_default |-> FALSE]}]

\* _current_project_id, no default project found: one is created on the
\* fly and committed
LazyDefaultProject(d, uid) ==
    [d EXCEPT !.projects = @ \cup
        {[id |-> NextId(@), name |-> DefaultProjectName, user_id |-> uid,
          is_default |-> TRUE]}]

\* _current_project_id: the session's project id if it holds one, else the
\* user's default project, else a default project created on the fly.
CurrentProject(d, se) ==
    IF se.project_id # 0
    THEN [db |-> d, sess |-> se, pid |-> se.project_id]
    ELSE LET defs == DefaultProjectsOf(d, se.user_id)
         IN IF defs # {}
            THEN LET pid == Min(Ids(defs))
                 IN [db |-> d, sess |-> [se EXCEPT !.project_id = pid], pid |-> pid]
            ELSE LET pid == NextId(d.projects)
                 IN [db |-> LazyDefaultProject(d, se.user_id),
                     sess |-> [se EXCEPT !.project_id = pid], pid |-> pid]

\* _get_user_config: the config with this id owned by the session's user
UserConfigExists(d, se, cid) ==
    \E c \in d.configs : c.id = cid /\ c.user_id = se.user_id

(***************************************************************************)
(* routes.py: rows built from a parsed JSON blob (import and restore).     *)
(***************************************************************************)
\* Provider(... input_size=int(p.get("input_size", 4096) or 4096),
\*          weight=float(p.get("weight", 1.0) or 1.0), ...)
ProviderFromJson(id, mid, p, enabled, order) ==
    [id |-> id, model_id |-> mid,
     provider_id |-> Get(p, "id", ""),
     api_host |-> Get(p, "api_host", ""),
     api_token |-> Get(p, "api_token", ""),
     api_type |-> Get(p, "api_type", ""),
     input_size |-> OrElse(Get(p, "input_size", DefaultInputSize), DefaultInputSize),
     model_path |-> Get(p, "model_path", ""),
     weight |-> OrElse(Get(p, "weight", DefaultWeight), DefaultWeight),
     enabled |-> enabled, order |-> order]

\* the order column of a rebuilt provider: restore passes order=idx,
\* import passes none and the column default 0 applies
RebuiltOrder(isRestore, idx) == IF isRestore THEN idx ELSE 0

\* the enabled flag: restore reads bool(p.get("enabled", True)), import
\* writes True
RebuiltEnabled(isRestore, p) == IF isRestore THEN Get(p, "enabled", TRUE) ELSE TRUE

RECURSIVE AddProvidersFrom(_, _, _, _, _)
AddProvidersFrom(d, mid, plist, i, isRestore) ==
    IF i > Len(plist) THEN d
    ELSE AddProvidersFrom(
            [d EXCEPT !.providers = @ \cup
                {ProviderFromJson(NextId(@), mid, plist[i],
                                  RebuiltEnabled(isRestore, plist[i]),
                                  RebuiltOrder(isRestore, i - 1))}],
            mid, plist, i + 1, isRestore)

\* for mname, mval in (data.get(fam) or {}).items(): a Model row, then its
\* providers from mval.get("providers", [])
RECURSIVE AddModelsFrom(_, _, _, _, _, _)
AddModelsFrom(d, cid, fam, dict, i, isRestore) ==
    IF i > Len(dict) THEN d
    ELSE LET mid == NextId(d.models)
             d1 == [d EXCEPT !.models = @ \cup
                      {[id |-> mid, config_id |-> cid, family |-> fam,
                        name |-> dict[i].name]}]
             d2 == AddProvidersFrom(d1, mid, Get(dict[i].val, "providers", <<>>),
                                    1, isRestore)
         IN AddModelsFrom(d2, cid, fam, dict, i + 1, isRestore)

RECURSIVE AddActivesFrom(_, _, _, _, _)
AddActivesFrom(d, cid, fam, names, i) ==
    IF i > Len(names) THEN d
    ELSE AddActivesFrom(
            [d EXCEPT !.actives = @ \cup
                {[id |-> NextId(@), config_id |-> cid, family |-> fam,
                  model_name |-> names[i]]}],
            cid, fam, names, i + 1)

RECURSIVE BuildModels(_, _, _, _, _)
BuildModels(d, cid, data, f, isRestore) ==
    IF f > Len(Families) THEN d
    ELSE BuildModels(
            AddModelsFrom(d, cid, Families[f], Get(data, Families[f], <<>>), 1, isRestore),
            cid, data, f + 1, isRestore)

RECURSIVE BuildActives(_, _, _, _)
BuildActives(d, cid, active, f) ==
    IF f > Len(Families) THEN d
    ELSE BuildActives(
            AddActivesFrom(d, cid, Families[f], Get(active, Families[f], <<>>), 1),
            cid, active, f + 1)

\* the models, providers and active models of a blob, added to config cid
BuildFromJson(d, cid, data, isRestore) ==
    BuildActives(BuildModels(d, cid, data, 1, isRestore), cid,
                 Get(data, "active_models", <<>>), 1)

(***************************************************************************)
(* routes.py: the handlers of configs.  A handler that ends in             *)
(* snapshot_version has two commits: its own (the operators named          *)
(* ..._commit, which return the store after that commit and the config and *)
(* note of the snapshot to take) and the one of snapshot_version.  The     *)
(* operator named as the handler is the whole handler, run without another *)
(* request in between: it maps the store d and the session se to a         *)
(* response Res(store, session, status, ok).                               *)
(***************************************************************************)
Redirected(d, se) == Res(d, se, 302, FALSE)

\* the state after a handler's own commit
Committed(d, se, code, cid, note) ==
    [db |-> d, sess |-> se, code |-> code, ok |-> TRUE, cid |-> cid, note |-> note]

\* the handler stopped before its commit (abort, flash and redirect)
Refused(d, se, code) ==
    [db |-> d, sess |-> se, code |-> code, ok |-> FALSE, cid |-> 0, note |-> <<>>]

\* the handler's commit with no call of snapshot_version after it
WithSnapshot_Skipped(t) == Res(t.db, t.sess, t.code, t.ok)

\* the handler's commit followed at once by snapshot_version
WithSnapshot(t) ==
    IF t.ok THEN Res(snapshot_version(t.db, t.cid, t.note), t.sess, t.code, TRUE)
    ELSE Res(t.db, t.sess, t.code, FALSE)

\* new_config (POST)
new_config_commit(d, se, name) ==
    IF ~Admitted(d, se) THEN Refused(d, se, 302)
    ELSE IF name = "" THEN Refused(d, se, 400)
    ELSE LET cp == CurrentProject(d, se)
         IN IF \E c \in cp.db.configs : c.name = name /\ c.project_id = cp.pid
            THEN Refused(cp.db, cp.sess, 400)
            ELSE LET cid == NextId(cp.db.configs)
                 IN Committed([cp.db EXCEPT !.configs = @ \cup
                                 {[id |-> cid, name |-> name, user_id |-> se.user_id,
                                   project_id |-> cp.pid, is_active |-> FALSE]}],
                              cp.sess, 302, cid, <<"Created empty config">>)

new_config(d, se, name) == WithSnapshot(new_config_commit(d, se, name))

\* the name import_config derives when the form gives none
DerivedImportName == "import-now"

\* a JSON array where the code expects an object is written
\* [json_array |-> ...]: a Python list has no .get
IsObject(v) == "json_array" \notin DOMAIN v

\* the loop over the models of the blob raises (mval.get on a list): the
\* request ends with 500 and the session's pending rows are rolled back
ImportRaises(data) ==
    \/ ~IsObject(data)
    \/ \E f \in VALID_FAMILIES :
          \E i \in DOMAIN Get(data, f, <<>>) : ~IsObject(Get(data, f, <<>>)[i].val)

\* import_config that commits the Config row before it loads the models
import_config_commit_ConfigFirst(d, se, name, valid, data) ==
    IF ~Admitted(d, se) THEN Refused(d, se, 302)
    ELSE IF ~valid THEN Refused(d, se, 302)
    ELSE LET nm == IF name = "" THEN DerivedImportName ELSE name
         IN IF \E c \in d.configs : c.name = nm /\ c.user_id = se.user_id
            THEN Refused(d, se, 302)
            ELSE LET cp == CurrentProject(d, se)
                     cid == NextId(cp.db.configs)
                     d1 == [cp.db EXCEPT !.configs = @ \cup
                              {[id |-> cid, name |-> nm, user_id |-> se.user_id,
                                project_id |-> cp.pid, is_active |-> FALSE]}]
                 IN IF ImportRaises(data) THEN Refused(d1, cp.sess, 500)
                    ELSE Committed(BuildFromJson(d1, cid, data, FALSE), cp.sess,
                                   302, cid, <<"Import JSON">>)

\* import_config (POST); data is the parsed blob, valid tells whether the
\* text parsed as JSON.  The Config row is flushed, the models, providers
\* and active models are added, and all of it is committed at once.
import_config_commit(d, se, name, valid, data) ==
    IF ~Admitted(d, se) THEN Refused(d, se, 302)
    ELSE IF ~valid THEN Refused(d, se, 302)
    ELSE LET nm == IF name = "" THEN DerivedImportName ELSE name
         IN IF \E c \in d.configs : c.name = nm /\ c.user_id = se.user_id
            THEN Refused(d, se, 302)
            ELSE LET cp == CurrentProject(d, se)
                     cid == NextId(cp.db.configs)
                     d1 == [cp.db EXCEPT !.configs = @ \cup
                              {[id |-> cid, name |-> nm, user_id |-> se.user_id,
                                project_id |-> cp.pid, is_active |-> FALSE]}]
                 IN IF ImportRaises(data) THEN Refused(cp.db, cp.sess, 500)
                    ELSE Committed(BuildFromJson(d1, cid, data, FALSE), cp.sess,
                                   302, cid, <<"Import JSON">>)

import_config(d, se, name, valid, data) ==
    WithSnapshot(import_config_commit(d, se, name, valid, data))

\* edit_config (POST) with new_name in the form: rename only, no snapshot
rename_config(d, se, cid, new_name) ==
    IF ~Admitted(d, se) THEN Redirected(d, se)
    ELSE IF ~UserConfigExists(d, se, cid) THEN Res(d, se, 404, FALSE)
    ELSE LET cfg == Row(d.configs, cid)
         IN IF new_name = "" \/ new_name = cfg.name THEN Res(d, se, 302, TRUE)
            ELSE IF \E c \in d.configs : c.name = new_name /\ c.user_id = se.user_id
            THEN Res(d, se, 302, FALSE)
            ELSE Res([d EXCEPT !.configs = (@ \ {cfg}) \cup
                                 {[cfg EXCEPT !.name = new_name]}],
                     se, 302, TRUE)

\* for each family in turn: ActiveModel.query.filter_by(config_id, family)
\* .delete(), then one ActiveModel per name of the form's list
RECURSIVE ReplaceActives(_, _, _, _)
ReplaceActives(d, cid, form, f) ==
    IF f > Len(Families) THEN d
    ELSE LET d1 == [d EXCEPT !.actives =
                      {a \in @ : ~(a.config_id = cid /\ a.family = Families[f])}]
         IN ReplaceActives(
               AddActivesFrom(d1, cid, Families[f], Get(form, Families[f], <<>>), 1),
               cid, form, f + 1)

\* edit_config (POST) without new_name: the active models of each family
\* are replaced by the form's lists
edit_config_commit(d, se, cid, form) ==
    IF ~Admitted(d, se) THEN Refused(d, se, 302)
    ELSE IF ~UserConfigExists(d, se, cid) THEN Refused(d, se, 404)
    ELSE Committed(ReplaceActives(d, cid, form, 1), se, 302, cid,
                   <<"Updated active models">>)

edit_config(d, se, cid, form) == WithSnapshot(edit_config_commit(d, se, cid, form))

\* add_model without its query for an existing (config, family, name)
add_model_commit_NoDuplicateCheck(d, se, cid, fam, name) ==
    IF ~Admitted(d, se) THEN Refused(d, se, 302)
    ELSE IF ~UserConfigExists(d, se, cid) THEN Refused(d, se, 404)
    ELSE IF fam \notin VALID_FAMILIES \/ name = "" THEN Refused(d, se, 400)
    ELSE Committed([d EXCEPT !.models = @ \cup
                      {[id |-> NextId(@), config_id |-> cid, family |-> fam,
                        name |-> name]}],
                   se, 200, cid, <<"Added model ", name>>)

\* add_model
add_model_commit(d, se, cid, fam, name) ==
    IF ~Admitted(d, se) THEN Refused(d, se, 302)
    ELSE IF ~UserConfigExists(d, se, cid) THEN Refused(d, se, 404)
    ELSE IF fam \notin VALID_FAMILIES \/ name = "" THEN Refused(d, se, 400)
    ELSE IF \E m \in d.models :
                m.config_id = cid /\ m.family = fam /\ m.name = name
         THEN Refused(d, se, 400)
    ELSE Committed([d EXCEPT !.models = @ \cup
                      {[id |-> NextId(@), config_id |-> cid, family |-> fam,
                        name |-> name]}],
                   se, 200, cid, <<"Added model ", name>>)

add_model(d, se, cid, fam, name) == WithSnapshot(add_model_commit(d, se, cid, fam, name))

\* m.config.owner.id
OwnerOfModel(d, m) == Row(d.configs, m.config_id).user_id

\* delete_model that deletes the Model row alone
delete_model_commit_NoCascade(d, se, mid) ==
    IF ~Admitted(d, se) THEN Refused(d, se, 302)
    ELSE IF mid \notin Ids(d.models) THEN Refused(d, se, 404)
    ELSE LET m == Row(d.models, mid)
         IN IF OwnerOfModel(d, m) # se.user_id THEN Refused(d, se, 403)
            ELSE Committed([d EXCEPT !.models = @ \ {m}],
                           se, 200, m.config_id, <<"Model deleted">>)

\* delete_model: the handler of models and providers that compares the
\* owner of the model's config with the session's user
delete_model_commit(d, se, mid) ==
    IF ~Admitted(d, se) THEN Refused(d, se, 302)
    ELSE IF mid \notin Ids(d.models) THEN Refused(d, se, 404)
    ELSE LET m == Row(d.models, mid)
         IN IF OwnerOfModel(d, m) # se.user_id THEN Refused(d, se, 403)
            ELSE Committed([d EXCEPT !.models = @ \ {m},
                                     !.providers = {p \in @ : p.model_id # mid}],
                           se, 200, m.config_id, <<"Model deleted">>)

delete_model(d, se, mid) == WithSnapshot(delete_model_commit(d, se, mid))

\* the highest order of the model not looked up
MaxOrder_Zero(d, mid) == 0

\* func.max(Provider.order) ... .scalar() or 0
MaxOrder(d, mid) ==
    IF ProvidersOf(d, mid) = {} THEN 0
    ELSE OrElse(Max({p.order : p \in ProvidersOf(d, mid)}), 0)

\* add_provider: Model.query.get_or_404(model_id), whoever owns the model
add_provider_commit(d, se, mid, payload) ==
    IF ~Admitted(d, se) THEN Refused(d, se, 302)
    ELSE IF mid \notin Ids(d.models) THEN Refused(d, se, 404)
    ELSE LET m == Row(d.models, mid)
             p == ProviderFromJson(NextId(d.providers), mid, payload,
                                   Get(payload, "enabled", TRUE),
                                   MaxOrder(d, mid) + 1)
         IN IF p.api_type \notin ApiTypes THEN Refused(d, se, 400)
            ELSE Committed([d EXCEPT !.providers = @ \cup {p}], se, 200,
                           m.config_id, <<"Added provider to ", m.name>>)

add_provider(d, se, mid, payload) == WithSnapshot(add_provider_commit(d, se, mid, payload))

\* the provider pid gets idx whatever model it belongs to
RECURSIVE ApplyOrder_AnyModel(_, _, _, _)
ApplyOrder_AnyModel(ps, mid, ids, i) ==
    IF i > Len(ids) THEN ps
    ELSE ApplyOrder_AnyModel(
            {IF p.id = ids[i] THEN [p EXCEPT !.order = i - 1] ELSE p : p \in ps},
            mid, ids, i + 1)

\* for idx, pid in enumerate(ids): the provider pid of this model gets idx
RECURSIVE ApplyOrder(_, _, _, _)
ApplyOrder(ps, mid, ids, i) ==
    IF i > Len(ids) THEN ps
    ELSE ApplyOrder(
            {IF p.id = ids[i] /\ p.model_id = mid
             THEN [p EXCEPT !.order = i - 1] ELSE p : p \in ps},
            mid, ids, i + 1)

\* reorder_providers: Model.query.get_or_404(model_id), whoever owns it
reorder_providers_commit(d, se, mid, ids) ==
    IF ~Admitted(d, se) THEN Refused(d, se, 302)
    ELSE IF mid \notin Ids(d.models) THEN Refused(d, se, 404)
    ELSE Committed([d EXCEPT !.providers = ApplyOrder(@, mid, ids, 1)], se, 200,
                   Row(d.models, mid).config_id, <<"Reordered providers">>)

reorder_providers(d, se, mid, ids) ==
    WithSnapshot(reorder_providers_commit(d, se, mid, ids))

\* JSON strings that int() and float() refuse with a ValueError
Texts == {"abc"}

\* int(v), float(v) return: v is a JSON number.  The values of a payload
\* are of different types and are told apart by their text.
Coercible(v) == ToString(v) \notin {ToString(t) : t \in Texts}

\* int(payload["input_size"]) or float(payload["weight"]) raises
UpdateRaises(payload) ==
    \E k \in {"input_size", "weight"} \cap DOMAIN payload :
        ~Coercible(payload[k])

\* the provider's order reset by the update
UpdatedProvider_ResetOrder(p, payload) ==
    [p EXCEPT
       !.provider_id = Get(payload, "provider_id", @),
       !.api_host = Get(payload, "api_host", @),
       !.api_token = Get(payload, "api_token", @),
       !.api_type = Get(payload, "api_type", @),
       !.model_path = Get(payload, "model_path", @),
       !.input_size = Get(payload, "input_size", @),
       !.weight = Get(payload, "weight", @),
       !.enabled = Get(payload, "enabled", @),
       !.order = 0]

\* the fields of the payload set on the provider, the others kept
UpdatedProvider(p, payload) ==
    [p EXCEPT
       !.provider_id = Get(payload, "provider_id", @),
       !.api_host = Get(payload, "api_host", @),
       !.api_token = Get(payload, "api_token", @),
       !.api_type = Get(payload, "api_type", @),
       !.model_path = Get(payload, "model_path", @),
       !.input_size = Get(payload, "input_size", @),
       !.weight = Get(payload, "weight", @),
       !.enabled = Get(payload, "enabled", @)]

\* update_provider: Provider.query.get_or_404(provider_id), whoever owns it;
\* a coercion that raises ends the request before its commit, and the
\* fields already set on the row are dropped with the session
update_provider_commit(d, se, pid, payload) ==
    IF ~Admitted(d, se) THEN Refused(d, se, 302)
    ELSE IF pid \notin Ids(d.providers) THEN Refused(d, se, 404)
    ELSE IF UpdateRaises(payload) THEN Refused(d, se, 500)
    ELSE LET p == Row(d.providers, pid)
             q == UpdatedProvider(p, payload)
         IN Committed([d EXCEPT !.providers = (@ \ {p}) \cup {q}], se, 200,
                      Row(d.models, p.model_id).config_id,
                      <<"Updated provider ", q.provider_id>>)

update_provider(d, se, pid, payload) ==
    WithSnapshot(update_provider_commit(d, se, pid, payload))

\* delete_provider: Provider.query.get_or_404(provider_id), whoever owns it
delete_provider_commit(d, se, pid) ==
    IF ~Admitted(d, se) THEN Refused(d, se, 302)
    ELSE IF pid \notin Ids(d.providers) THEN Refused(d, se, 404)
    ELSE LET p == Row(d.providers, pid)
         IN Committed([d EXCEPT !.providers = @ \ {p}], se, 200,
                      Row(d.models, p.model_id).config_id,
                      <<"Deleted provider ", p.provider_id>>)

delete_provider(d, se, pid) == WithSnapshot(delete_provider_commit(d, se, pid))

\* no config deactivated before the new one is activated
ClearActive_None(configs, uid) == configs

\* Config.query.filter_by(user_id=...).update({Config.is_active: False})
ClearActive(configs, uid) ==
    {IF c.user_id = uid THEN [c EXCEPT !.is_active = FALSE] ELSE c : c \in configs}

\* set_active_config: the UPDATE that clears every config of the user and
\* the setting of the chosen one are committed together
set_active_config(d, se, cid) ==
    IF ~Admitted(d, se) THEN Redirected(d, se)
    ELSE IF ~UserConfigExists(d, se, cid) THEN Res(d, se, 404, FALSE)
    ELSE Res([d EXCEPT !.configs =
                {IF c.id = cid THEN [c EXCEPT !.is_active = TRUE] ELSE c :
                    c \in ClearActive(@, se.user_id)}],
             se, 200, TRUE)

\* db.session.delete(cfg): the cascade removes the config's models with
\* their providers, its active models and its versions
DeleteConfigRows(d, cid) ==
    [d EXCEPT !.configs = {c \in @ : c.id # cid},
              !.providers = {p \in @ : \A m \in ModelsOf(d, cid) : p.model_id # m.id},
              !.models = {m \in @ : m.config_id # cid},
              !.actives = {a \in @ : a.config_id # cid},
              !.versions = {v \in @ : v.config_id # cid}]

\* delete_config
delete_config(d, se, cid) ==
    IF ~Admitted(d, se) THEN Redirected(d, se)
    ELSE IF ~UserConfigExists(d, se, cid) THEN Res(d, se, 404, FALSE)
    ELSE Res(DeleteConfigRows(d, cid), se, 302, TRUE)

(***************************************************************************)
(* routes.py: restore_version, in its three committed phases.              *)
(***************************************************************************)
\* ConfigVersion.query.filter_by(config_id, version).first()
VersionRow(d, cid, version) ==
    LET vs == {v \in VersionsOf(d, cid) : v.version = version}
    IN Row(vs, Min(Ids(vs)))

VersionExists(d, cid, version) ==
    \E v \in VersionsOf(d, cid) : v.version = version

\* phase 1: the bulk deletes of providers, models and active models,
\* committed on their own (routes.py line 887)
RestoreDelete(d, cid) ==
    [d EXCEPT !.providers = {p \in @ : \A m \in ModelsOf(d, cid) : p.model_id # m.id},
              !.models = {m \in @ : m.config_id # cid},
              !.actives = {a \in @ : a.config_id # cid}]

\* phase 2: the rows rebuilt from the snapshot, committed (line 922)
RestoreRebuild(d, cid, data) == BuildFromJson(d, cid, data, TRUE)

RestoreNote(version) == <<"Restored version ", ToString(version)>>

\* restore_version may go on: the config is the user's and has the version
RestoreAdmitted(d, se, cid, version) ==
    /\ Admitted(d, se)
    /\ UserConfigExists(d, se, cid)
    /\ VersionExists(d, cid, version)

\* restore_version up to its second commit, without a failure between its
\* two commits
restore_version_commit(d, se, cid, version) ==
    IF ~Admitted(d, se) THEN Refused(d, se, 302)
    ELSE IF ~UserConfigExists(d, se, cid) THEN Refused(d, se, 404)
    ELSE IF ~VersionExists(d, cid, version) THEN Refused(d, se, 404)
    ELSE Committed(RestoreRebuild(RestoreDelete(d, cid), cid,
                                  VersionRow(d, cid, version).json_blob),
                   se, 200, cid, RestoreNote(version))

restore_version(d, se, cid, version) ==
    WithSnapshot(restore_version_commit(d, se, cid, version))

(***************************************************************************)
(* routes.py: users, sessions and projects.                                *)
(***************************************************************************)
\* the project of a new user added without the default flag
DefaultProjectFor_NotFlagged(d, uid) ==
    [d EXCEPT !.projects = @ \cup
        {[id |-> NextId(@), name |-> DefaultProjectName, user_id |-> uid,
          is_default |-> FALSE]}]

\* _create_default_project_for_user, in its own commit; the session gets
\* the project only if it is the new user's
DefaultProjectFor(d, uid) ==
    [d EXCEPT !.projects = @ \cup
        {[id |-> NextId(@), name |-> DefaultProjectName, user_id |-> uid,
          is_default |-> TRUE]}]

SessionAfterDefaultProject(d, se, uid) ==
    IF se.user_id = uid THEN [se EXCEPT !.project_id = NextId(d.projects)] ELSE se

\* db.session.add(User(...)); db.session.commit()
InsertUser(d, username, role) ==
    [d EXCEPT !.users = @ \cup
        {[id |-> NextId(@), username |-> username, role |-> role,
          is_active |-> TRUE]}]

\* setup (POST, both passwords equal and not empty): reachable only while
\* the user table is empty
setup(d, se, username) ==
    IF d.users # {} THEN Redirected(d, se)
    ELSE IF username = "" THEN Redirected(d, se)
    ELSE LET uid == NextId(d.users)
             d1 == InsertUser(d, username, "admin")
         IN Res(DefaultProjectFor(d1, uid),
                SessionAfterDefaultProject(d1, se, uid), 302, TRUE)

\* admin_users (POST): the role of the form is stored as given
admin_users(d, se, username, role) ==
    IF ~Admitted(d, se) THEN Redirected(d, se)
    ELSE IF se.role # "admin" THEN Res(d, se, 403, FALSE)
    ELSE IF username = "" THEN Redirected(d, se)
    ELSE IF \E u \in d.users : u.username = username THEN Redirected(d, se)
    ELSE LET uid == NextId(d.users)
             d1 == InsertUser(d, username, role)
         IN Res(DefaultProjectFor(d1, uid),
                SessionAfterDefaultProject(d1, se, uid), 302, TRUE)

\* the roles edit_user accepts
Roles == {"admin", "user"}

\* edit_user: an admin sets the role of another user; role is the form's
\* value, "" when the form has none.  The password change of the same form
\* writes the password hash, which the store of this model leaves out.
edit_user(d, se, uid, role) ==
    IF ~Admitted(d, se) THEN Redirected(d, se)
    ELSE IF se.role # "admin" THEN Res(d, se, 403, FALSE)
    ELSE IF uid = se.user_id THEN Redirected(d, se)
    ELSE IF uid \notin Ids(d.users) THEN Res(d, se, 404, FALSE)
    ELSE IF role = "" THEN Res(d, se, 302, TRUE)
    ELSE IF role \notin Roles THEN Redirected(d, se)
    ELSE LET u == Row(d.users, uid)
         IN Res([d EXCEPT !.users = (@ \ {u}) \cup {[u EXCEPT !.role = role]}],
                se, 302, TRUE)

\* toggle_block_user: an admin flips the is_active flag of another user
toggle_block_user(d, se, uid) ==
    IF ~Admitted(d, se) THEN Redirected(d, se)
    ELSE IF se.role # "admin" THEN Res(d, se, 403, FALSE)
    ELSE IF uid = se.user_id THEN Redirected(d, se)
    ELSE IF uid \notin Ids(d.users) THEN Res(d, se, 404, FALSE)
    ELSE LET u == Row(d.users, uid)
         IN Res([d EXCEPT !.users = (@ \ {u}) \cup
                              {[u EXCEPT !.is_active = ~u.is_active]}],
                se, 302, TRUE)

\* login (POST): pwok tells whether the password matches the stored hash
login(d, se, username, pwok) ==
    IF d.users = {} THEN Redirected(d, se)
    ELSE IF se.user_id # 0 THEN Redirected(d, se)
    ELSE IF ~(\E u \in d.users : u.username = username) \/ ~pwok
         THEN Redirected(d, se)
    ELSE LET u == CHOOSE x \in d.users : x.username = username
         IN IF ~u.is_active THEN Redirected(d, se)
            ELSE Res(d, [se EXCEPT !.user_id = u.id, !.role = u.role], 302, TRUE)

\* logout: session.clear()
logout(d, se) ==
    IF ~Admitted(d, se) THEN Redirected(d, se)
    ELSE Res(d, NoSession, 302, TRUE)

\* index and list_configs (GET): they resolve the current project
index(d, se) ==
    IF ~Admitted(d, se) THEN Redirected(d, se)
    ELSE LET cp == CurrentProject(d, se) IN Res(cp.db, cp.sess, 200, TRUE)

\* select_project
select_project(d, se, pid) ==
    IF ~Admitted(d, se) THEN Redirected(d, se)
    ELSE IF ~(\E p \in d.projects : p.id = pid /\ p.user_id = se.user_id)
         THEN Res(d, se, 404, FALSE)
    ELSE Res(d, [se EXCEPT !.project_id = pid], 302, TRUE)

\* manage_projects (POST): a new project of the session's user
manage_projects(d, se, name) ==
    IF ~Admitted(d, se) THEN Redirected(d, se)
    ELSE IF name = "" THEN Redirected(d, se)
    ELSE IF \E p \in d.projects : p.user_id = se.user_id /\ p.name = name
         THEN Redirected(d, se)
    ELSE Res([d EXCEPT !.projects = @ \cup
                {[id |-> NextId(@), name |-> name, user_id |-> se.user_id,
                  is_default |-> FALSE]}],
             se, 302, TRUE)

\* rename_project
rename_project(d, se, pid, new_name) ==
    IF ~Admitted(d, se) THEN Redirected(d, se)
    ELSE IF ~(\E p \in d.projects : p.id = pid /\ p.user_id = se.user_id)
         THEN Res(d, se, 404, FALSE)
    ELSE IF new_name = "" THEN Redirected(d, se)
    ELSE IF \E p \in d.projects : p.user_id = se.user_id /\ p.name = new_name
         THEN Redirected(d, se)
    ELSE LET proj == Row(d.projects, pid)
         IN Res([d EXCEPT !.projects = (@ \ {proj}) \cup
                             {[proj EXCEPT !.name = new_name]}],
                se, 302, TRUE)

\* proj.configs
ConfigsOfProject(d, pid) == {c \in d.configs : c.project_id = pid}

\* only the default flag looked at
DeleteProjectRefused_DefaultOnly(d, proj) == proj.is_default

\* only the configs looked at
DeleteProjectRefused_ConfigsOnly(d, proj) == ConfigsOfProject(d, proj.id) # {}

\* the two refusals of delete_project
DeleteProjectRefused(d, proj) ==
    proj.is_default \/ ConfigsOfProject(d, proj.id) # {}

\* delete_project
delete_project(d, se, pid) ==
    IF ~Admitted(d, se) THEN Redirected(d, se)
    ELSE IF ~(\E p \in d.projects : p.id = pid /\ p.user_id = se.user_id)
         THEN Res(d, se, 404, FALSE)
    ELSE LET proj == Row(d.projects, pid)
         IN IF DeleteProjectRefused(d, proj) THEN Redirected(d, se)
            ELSE Res([d EXCEPT !.projects = @ \ {proj}],
                     IF se.project_id = pid THEN [se EXCEPT !.project_id = 0] ELSE se,
                     302, TRUE)

(***************************************************************************)
(* The requests the model sends: small alphabets of form fields, JSON      *)
(* payloads and blobs.                                                     *)
(***************************************************************************)
UserNames == {"root", "bob"}
\* the name typed into the setup form
FirstUserNames == {"root"}
\* the role field of a posted form
FormRoles == Roles \cup {"guest"}
ProjectNames == {"default_project", "px"}
ConfigNames == {"a"}
\* the names typed into the rename form
RenameNames == {"a", "b"}
ModelNames == {"m"}
ModelFamilies == {"openai_models", "qwen_models", "other_models"}

AddPayloads ==
    {[id |-> "p", api_host |-> "h", api_type |-> "openai"],
     [id |-> "q", api_host |-> "h", api_type |-> "vllm", weight |-> 2],
     [id |-> "s", api_host |-> "h", api_type |-> "tgi"]}

UpdatePayloads ==
    {[input_size |-> 0], [weight |-> 0], [enabled |-> FALSE],
     [api_type |-> "tgi"]}

\* payloads with a numeric field that is no number
UncoercedPayloads ==
    {[input_size |-> "abc"], [api_host |-> "h2", weight |-> "abc"]}

ActiveForms ==
    {[openai_models |-> <<"m">>],
     [openai_models |-> <<"n">>, qwen_models |-> <<"m", "zz">>]}

EmptyBlob == [openai_models |-> <<>>]

ModelBlob ==
     [openai_models |->
        <<[name |-> "m",
           val |-> [providers |->
              <<[id |-> "p", api_host |-> "h", api_token |-> "", api_type |-> "vllm",
                 input_size |-> 4096, model_path |-> "", weight |-> 1],
                [id |-> "q", api_host |-> "h", api_token |-> "", api_type |-> "openai",
                 input_size |-> 2048, model_path |-> ""]>>]]>>,
      active_models |-> [openai_models |-> <<"m">>]]

\* a blob whose second model is an array instead of an object
BrokenBlob ==
    [openai_models |->
        <<[name |-> "m", val |-> [providers |-> <<>>]],
          [name |-> "x", val |-> [json_array |-> <<>>]]>>]

ImportBlobs == {EmptyBlob, ModelBlob, BrokenBlob}

\* the lists a reorder request may carry: ids of providers and an id that
\* no provider has
ReorderLists(d) ==
    LET ids == Ids(d.providers) \cup {NextId(d.providers)}
    IN {t \in ids \X ids : t[1] # t[2]}

(***************************************************************************)
(* The store stays within the bounds of the model.                         *)
(***************************************************************************)
\* Deleting rows and adding others lets the primary keys grow without a
\* limit; a table's keys stay within the bound on its rows.
IdsWithin(table, n) == \A r \in table : r.id <= n

Bounded(d) ==
    /\ Cardinality(d.users) <= MaxUsers
    /\ Cardinality(d.projects) <= MaxProjects
    /\ Cardinality(d.configs) <= MaxConfigs
    /\ IdsWithin(d.projects, MaxProjects)
    /\ IdsWithin(d.configs, MaxConfigs)
    /\ IdsWithin(d.versions, MaxConfigs)

BoundedEdit(d) ==
    /\ Cardinality(d.configs) <= MaxEditConfigs
    /\ Cardinality(d.models) <= MaxModels
    /\ Cardinality(d.providers) <= MaxProviders
    /\ \A c \in d.configs : Cardinality(VersionsOf(d, c.id)) <= MaxVersions
    /\ IdsWithin(d.projects, MaxProjects)
    /\ IdsWithin(d.configs, MaxEditConfigs)
    /\ IdsWithin(d.models, MaxModels)
    /\ IdsWithin(d.providers, MaxProviders)
    /\ IdsWithin(d.actives, MaxActives)
    /\ IdsWithin(d.versions, MaxEditConfigs * MaxVersions)

NoResponse == [op |-> "none", sid |-> 0, arg |-> 0, ver |-> 0, code |-> 0, ok |-> FALSE]

Idle == [pc |-> "idle"]

\* a handler run as one step by a worker that holds no response: the store
\* and the session cookie are as the handler left them, and its response
\* is on its way to the browser.  Browsers that are not logged in send
\* setup and login requests only (any other request is redirected to the
\* login page by ensure_initial_user).
Respond(op, s, arg, ver, r) ==
    /\ last = NoResponse
    /\ op \in {"setup", "login"} \/ Admitted(db, sessions[s])
    /\ \A p \in Procs : procs[p] = Idle
    /\ db' = r.db
    /\ sessions' = [sessions EXCEPT ![s] = r.sess]
    /\ last' = [op |-> op, sid |-> s, arg |-> arg, ver |-> ver,
                code |-> r.code, ok |-> r.ok]
    /\ UNCHANGED procs

\* the response reaches the browser: no request is in flight
Deliver ==
    /\ last # NoResponse
    /\ last' = NoResponse
    /\ UNCHANGED <<db, sessions, procs>>

(***************************************************************************)
(* One action per request, run to completion.                              *)
(***************************************************************************)
Setup(s) ==
    \E n \in FirstUserNames : Respond("setup", s, 0, 0, setup(db, sessions[s], n))

AdminUsers(s) ==
    \E n \in UserNames, r \in FormRoles :
        Respond("admin_users", s, 0, 0, admin_users(db, sessions[s], n, r))

EditUser(s) ==
    \E uid \in Ids(db.users), r \in FormRoles \cup {""} :
        Respond("edit_user", s, uid, 0, edit_user(db, sessions[s], uid, r))

ToggleBlockUser(s) ==
    \E uid \in Ids(db.users) :
        Respond("toggle_block_user", s, uid, 0,
                toggle_block_user(db, sessions[s], uid))

Login(s) ==
    \E n \in UserNames :
        Respond("login", s, 0, 0, login(db, sessions[s], n, TRUE))

Logout(s) == Respond("logout", s, 0, 0, logout(db, sessions[s]))

Index(s) == Respond("index", s, 0, 0, index(db, sessions[s]))

SelectProject(s) ==
    \E pid \in Ids(db.projects) :
        Respond("select_project", s, pid, 0, select_project(db, sessions[s], pid))

ManageProjects(s) ==
    \E n \in ProjectNames :
        Respond("manage_projects", s, 0, 0, manage_projects(db, sessions[s], n))

RenameProject(s) ==
    \E pid \in Ids(db.projects), n \in ProjectNames :
        Respond("rename_project", s, pid, 0, rename_project(db, sessions[s], pid, n))

DeleteProject(s) ==
    \E pid \in Ids(db.projects) :
        Respond("delete_project", s, pid, 0, delete_project(db, sessions[s], pid))

NewConfig(s) ==
    \E n \in ConfigNames :
        Respond("new_config", s, 0, 0, new_config(db, sessions[s], n))

ImportConfig(s) ==
    \E n \in ConfigNames \cup {""}, data \in ImportBlobs, valid \in BOOLEAN :
        Respond("import_config", s, 0, 0,
                import_config(db, sessions[s], n, valid, data))

RenameConfig(s) ==
    \E cid \in Ids(db.configs), n \in RenameNames :
        Respond("rename_config", s, cid, 0, rename_config(db, sessions[s], cid, n))

EditConfig(s) ==
    \E cid \in Ids(db.configs), form \in ActiveForms :
        Respond("edit_config", s, cid, 0, edit_config(db, sessions[s], cid, form))

AddModel(s) ==
    \E cid \in Ids(db.configs), fam \in ModelFamilies, n \in ModelNames :
        Respond("add_model", s, cid, 0, add_model(db, sessions[s], cid, fam, n))

DeleteModel(s) ==
    \E mid \in Ids(db.models) :
        Respond("delete_model", s, mid, 0, delete_model(db, sessions[s], mid))

AddProvider(s) ==
    \E mid \in Ids(db.models), payload \in AddPayloads :
        Respond("add_provider", s, mid, 0, add_provider(db, sessions[s], mid, payload))

ReorderProviders(s) ==
    \E mid \in Ids(db.models), ids \in ReorderLists(db) :
        Respond("reorder_providers", s, mid, 0,
                reorder_providers(db, sessions[s], mid, ids))

UpdateProvider(s) ==
    \/ \E pid \in Ids(db.providers), payload \in UpdatePayloads :
          Respond("update_provider", s, pid, 0,
                  update_provider(db, sessions[s], pid, payload))
    \/ \E pid \in Ids(db.providers), payload \in UncoercedPayloads :
          Respond("update_provider", s, pid, 0,
                  update_provider(db, sessions[s], pid, payload))

DeleteProvider(s) ==
    \E pid \in Ids(db.providers) :
        Respond("delete_provider", s, pid, 0, delete_provider(db, sessions[s], pid))

SetActiveConfig(s) ==
    \E cid \in Ids(db.configs) :
        Respond("set_active_config", s, cid, 0, set_active_config(db, sessions[s], cid))

DeleteConfig(s) ==
    \E cid \in Ids(db.configs) :
        Respond("delete_config", s, cid, 0, delete_config(db, sessions[s], cid))

RestoreVersion(s) ==
    \E cid \in Ids(db.configs), v \in 1..MaxVersions :
        Respond("restore_version", s, cid, v, restore_version(db, sessions[s], cid, v))

(***************************************************************************)
(* Spec: users, sessions, projects and configs, requests one at a time,    *)
(* from the empty database that db.create_all() leaves.                    *)
(***************************************************************************)
Init ==
    /\ db = EmptyDb
    /\ sessions = [s \in Sessions |-> NoSession]
    /\ procs = [p \in Procs |-> Idle]
    /\ last = NoResponse

Next ==
    /\ \/ Deliver
       \/ \E s \in Sessions : Setup(s)
       \/ \E s \in Sessions : AdminUsers(s)
       \/ \E s \in Sessions : Login(s)
       \/ \E s \in Sessions : Logout(s)
       \/ \E s \in Sessions : Index(s)
       \/ \E s \in Sessions : SelectProject(s)
       \/ \E s \in Sessions : ManageProjects(s)
       \/ \E s \in Sessions : RenameProject(s)
       \/ \E s \in Sessions : DeleteProject(s)
       \/ \E s \in Sessions : NewConfig(s)
       \/ \E s \in Sessions : SetActiveConfig(s)
       \/ \E s \in Sessions : DeleteConfig(s)
    /\ Bounded(db')

Spec == Init /\ [][Next]_vars

(***************************************************************************)
(* SpecEdit: the editing of configs, requests one at a time, from the      *)
(* state in which the admin root and the user bob, each with a default     *)
(* project, are logged in.                                                 *)
(***************************************************************************)
TwoUsersDb ==
    [EmptyDb EXCEPT
        !.users = {[id |-> 1, username |-> "root", role |-> "admin", is_active |-> TRUE],
                   [id |-> 2, username |-> "bob", role |-> "user", is_active |-> TRUE]},
        !.projects = {[id |-> 1, name |-> DefaultProjectName, user_id |-> 1,
                       is_default |-> TRUE],
                      [id |-> 2, name |-> DefaultProjectName, user_id |-> 2,
                       is_default |-> TRUE]}]

TwoUsersSessions ==
    [s \in Sessions |->
        IF s = 1 THEN [user_id |-> 1, role |-> "admin", project_id |-> 1]
        ELSE [user_id |-> 2, role |-> "user", project_id |-> 2]]

InitEdit ==
    /\ db = TwoUsersDb
    /\ sessions = TwoUsersSessions
    /\ procs = [p \in Procs |-> Idle]
    /\ last = NoResponse

NextEdit ==
    /\ \/ Deliver
       \/ \E s \in Sessions : NewConfig(s)
       \/ \E s \in Sessions : ImportConfig(s)
       \/ \E s \in Sessions : RenameConfig(s)
       \/ \E s \in Sessions : EditConfig(s)
       \/ \E s \in Sessions : AddModel(s)
       \/ \E s \in Sessions : DeleteModel(s)
       \/ \E s \in Sessions : AddProvider(s)
       \/ \E s \in Sessions : ReorderProviders(s)
       \/ \E s \in Sessions : UpdateProvider(s)
       \/ \E s \in Sessions : DeleteProvider(s)
       \/ \E s \in Sessions : RestoreVersion(s)
       \/ \E s \in Sessions : SetActiveConfig(s)
       \/ \E s \in Sessions : DeleteConfig(s)
    /\ BoundedEdit(db')

SpecEdit == InitEdit /\ [][NextEdit]_vars

(***************************************************************************)
(* SpecConfigs: the configs of two users, created, imported, renamed,      *)
(* activated and deleted, requests one at a time, from the state of        *)
(* InitEdit.                                                               *)
(***************************************************************************)
BoundedConfigs(d) ==
    /\ Cardinality(d.configs) <= MaxShelfConfigs
    /\ Cardinality(d.models) <= MaxModels
    /\ Cardinality(d.providers) <= MaxProviders
    /\ IdsWithin(d.configs, MaxShelfConfigs)
    /\ IdsWithin(d.models, MaxModels)
    /\ IdsWithin(d.providers, MaxProviders)
    /\ IdsWithin(d.actives, MaxActives)
    /\ IdsWithin(d.versions, MaxShelfConfigs)

NextConfigs ==
    /\ \/ Deliver
       \/ \E s \in Sessions : NewConfig(s)
       \/ \E s \in Sessions : ImportConfig(s)
       \/ \E s \in Sessions : RenameConfig(s)
       \/ \E s \in Sessions : SetActiveConfig(s)
       \/ \E s \in Sessions : DeleteConfig(s)
    /\ BoundedConfigs(db')

SpecConfigs == InitEdit /\ [][NextConfigs]_vars

(***************************************************************************)
(* Claims about the versions of a config (SpecEdit).                       *)
(***************************************************************************)
VersionNumbers(d, cid) == {v.version : v \in VersionsOf(d, cid)}

\* C1: with requests run one at a time, the version numbers of each
\* config's ConfigVersion rows are exactly 1..N: no gap, no duplicate.
C1_VersionsAreOneToN ==
    \A cid \in {v.config_id : v \in db.versions} :
        /\ VersionNumbers(db, cid) = 1..Cardinality(VersionsOf(db, cid))
        /\ cid \in Ids(db.configs)

\* a config whose history holds a creation, an edit and a restore
C1_Witness ==
    \E c \in db.configs :
        /\ Cardinality(VersionsOf(db, c.id)) = 3
        /\ \E v \in VersionsOf(db, c.id) : v.version = 3 /\ v.note[1] = "Restored version "
        /\ \E v \in VersionsOf(db, c.id) : v.version = 2 /\ v.note[1] = "Added model "

\* the version row with the highest number of a config
NewestVersion(d, cid) ==
    CHOOSE v \in VersionsOf(d, cid) : v.version = LastVersion(d, cid)

\* C4 as claimed: a successful restore_version(config, v) appends a version
\* whose JSON equals the JSON of version v.
C4_RestoreReproducesVersion ==
    (last.op = "restore_version" /\ last.ok) =>
        NewestVersion(db, last.arg).json_blob
            = VersionRow(db, last.arg, last.ver).json_blob

\* C6: no step changes or removes a ConfigVersion row of a config that is
\* still there, and a successful restore_version adds exactly one row and
\* keeps all the others.
C6_HistoryAppendOnly ==
    [][/\ \A v \in db.versions :
              v.config_id \in Ids(db'.configs) => v \in db'.versions
       /\ (last'.op = "restore_version" /\ last'.ok) =>
              /\ db.versions \subseteq db'.versions
              /\ Cardinality(db'.versions) = Cardinality(db.versions) + 1
              /\ NewestVersion(db', last'.arg) \notin db.versions]_vars

\* a restore of version 1 done when version 2 existed: version 2 is kept
C6_Witness ==
    /\ last.op = "restore_version" /\ last.ok /\ last.ver = 1
    /\ VersionNumbers(db, last.arg) = {1, 2, 3}
    /\ NewestVersion(db, last.arg).note = RestoreNote(1)

(***************************************************************************)
(* Claims about ownership (SpecEdit).                                      *)
(***************************************************************************)
ModelRequests == {"delete_model", "add_provider", "reorder_providers"}
ProviderRequests == {"update_provider", "delete_provider"}

\* the request names a model or provider of a config of another user
ForeignTarget(d, se, op, arg) ==
    \/ /\ op = "add_model"
       /\ \E c \in d.configs : c.id = arg /\ c.user_id # se.user_id
    \/ /\ op \in ModelRequests
       /\ \E m \in d.models : m.id = arg /\ OwnerOfModel(d, m) # se.user_id
    \/ /\ op \in ProviderRequests
       /\ \E p \in d.providers :
             p.id = arg /\ OwnerOfModel(d, Row(d.models, p.model_id)) # se.user_id

\* C3 as claimed: a request of user U on a model or provider of a config
\* of another user is refused and leaves the stored data unchanged.
C3_ForeignRequestsRefused ==
    [][(last' # NoResponse /\ ForeignTarget(db, sessions[last'.sid], last'.op, last'.arg))
          => (~last'.ok /\ db' = db)]_vars

(***************************************************************************)
(* Claims about the active config (SpecConfigs).                           *)
(***************************************************************************)
ActiveConfigsOf(d, uid) == {c \in d.configs : c.user_id = uid /\ c.is_active}

\* C7: each user owns at most one active config, and after a successful
\* set_active_config(c) the config c is active and every other config of
\* its owner is not.
C7_OneActiveConfigPerUser ==
    /\ \A u \in db.users : Cardinality(ActiveConfigsOf(db, u.id)) <= 1
    /\ (last.op = "set_active_config" /\ last.ok) =>
          ActiveConfigsOf(db, sessions[last.sid].user_id)
              = {Row(db.configs, last.arg)}

\* a config activated while its owner has another config, and while the
\* other user has an active config too
C7_Witness ==
    /\ last.op = "set_active_config" /\ last.ok
    /\ \E c \in db.configs :
          c.id # last.arg /\ c.user_id = sessions[last.sid].user_id
    /\ \E c \in db.configs : c.is_active /\ c.user_id # sessions[last.sid].user_id

(***************************************************************************)
(* Claims about the deletion of projects (Spec).                           *)
(***************************************************************************)
\* C9: delete_project on a project that owns a config fails and leaves the
\* project, its configs and everything they own unchanged.
C9_ProjectWithConfigsKept ==
    [][(last'.op = "delete_project" /\ ConfigsOfProject(db, last'.arg) # {})
          => (~last'.ok /\ db' = db)]_vars

\* the owner's request to delete a project that is not the default one and
\* holds a config was refused
C9_Witness ==
    /\ last.op = "delete_project" /\ ~last.ok
    /\ \E p \in db.projects :
          /\ p.id = last.arg
          /\ p.user_id = sessions[last.sid].user_id
          /\ ~p.is_default
          /\ ConfigsOfProject(db, p.id) # {}

\* C10: no step removes a project flagged is_default, and a delete request
\* for it fails, with or without configs in it.
C10_DefaultProjectKept ==
    [][/\ \A p \in db.projects :
              p.is_default =>
                  \E q \in db'.projects :
                      q.id = p.id /\ q.user_id = p.user_id /\ q.is_default
       /\ (/\ last'.op = "delete_project"
           /\ \E p \in db.projects : p.id = last'.arg /\ p.is_default)
          => ~last'.ok]_vars

\* the owner's request to delete the default project, which holds no
\* config, was refused
C10_Witness ==
    /\ last.op = "delete_project" /\ ~last.ok
    /\ \E p \in db.projects :
          /\ p.id = last.arg
          /\ p.user_id = sessions[last.sid].user_id
          /\ p.is_default
          /\ ConfigsOfProject(db, p.id) = {}

(***************************************************************************)
(* Requests served by several workers at once.  A step is what a worker    *)
(* does up to and including one commit, or one read of the store that a    *)
(* later write of the same request depends on.                             *)
(***************************************************************************)
\* the worker has committed the handler's change and calls snapshot_version
AtSnapshot(s, cid, note) ==
    [pc |-> "snapshot_read", sid |-> s, cid |-> cid, note |-> note]

\* a handler up to its own commit; a refused request returns at once
Begin(p, s, t) ==
    /\ last = NoResponse
    /\ procs[p] = Idle
    /\ Admitted(db, sessions[s])
    /\ db' = t.db
    /\ sessions' = [sessions EXCEPT ![s] = t.sess]
    /\ procs' = [procs EXCEPT ![p] =
                    IF t.ok THEN AtSnapshot(s, t.cid, t.note) ELSE Idle]
    /\ UNCHANGED last

WAddModel(p, s) ==
    \E cid \in Ids(db.configs), fam \in ModelFamilies, n \in ModelNames :
        Begin(p, s, add_model_commit(db, sessions[s], cid, fam, n))

WUpdateProvider(p, s) ==
    \E pid \in Ids(db.providers), payload \in WorkerPayloads :
        Begin(p, s, update_provider_commit(db, sessions[s], pid, payload))

\* restore_version up to its first commit (routes.py line 887)
WRestoreDelete(p, s) ==
    \E cid \in Ids(db.configs), v \in 1..MaxVersions :
        /\ last = NoResponse
        /\ procs[p] = Idle
        /\ RestoreAdmitted(db, sessions[s], cid, v)
        /\ db' = RestoreDelete(db, cid)
        /\ procs' = [procs EXCEPT ![p] =
                        [pc |-> "restore_rebuild", sid |-> s, cid |-> cid,
                         version |-> v,
                         data |-> VersionRow(db, cid, v).json_blob]]
        /\ UNCHANGED <<sessions, last>>

\* restore_version from its first commit to its second (line 922)
WRestoreRebuild(p) ==
    /\ procs[p].pc = "restore_rebuild"
    /\ db' = RestoreRebuild(db, procs[p].cid, procs[p].data)
    /\ procs' = [procs EXCEPT ![p] =
                    AtSnapshot(procs[p].sid, procs[p].cid,
                               RestoreNote(procs[p].version))]
    /\ UNCHANGED <<sessions, last>>

\* snapshot_version: to_json and the query of the highest version
SnapshotRead(p) ==
    /\ procs[p].pc = "snapshot_read"
    /\ procs' = [procs EXCEPT ![p] =
                    [pc |-> "snapshot_write", sid |-> procs[p].sid,
                     cid |-> procs[p].cid, note |-> procs[p].note,
                     payload |-> to_json(db, procs[p].cid),
                     lastv |-> LastVersion(db, procs[p].cid)]]
    /\ UNCHANGED <<db, sessions, last>>

\* snapshot_version: the new row added and committed; the response follows
SnapshotWrite(p) ==
    /\ procs[p].pc = "snapshot_write"
    /\ db' = InsertVersion(db, procs[p].cid, procs[p].note,
                           procs[p].payload, procs[p].lastv)
    /\ procs' = [procs EXCEPT ![p] = Idle]
    /\ UNCHANGED <<sessions, last>>

BoundedWorkers(d) ==
    /\ Cardinality(d.configs) <= MaxEditConfigs
    /\ Cardinality(d.models) <= MaxModels
    /\ Cardinality(d.providers) <= MaxProviders
    /\ \A c \in d.configs : Cardinality(VersionsOf(d, c.id)) <= MaxVersions
    /\ IdsWithin(d.configs, MaxEditConfigs)
    /\ IdsWithin(d.models, MaxModels + 1)
    /\ IdsWithin(d.providers, MaxProviders + 1)
    /\ IdsWithin(d.actives, MaxActives)
    /\ IdsWithin(d.versions, MaxEditConfigs * MaxVersions)

\* root has imported a config with a model and two providers
InitWorkers ==
    /\ db = import_config(TwoUsersDb, TwoUsersSessions[1], "a", TRUE, ModelBlob).db
    /\ sessions = TwoUsersSessions
    /\ procs = [p \in Procs |-> Idle]
    /\ last = NoResponse

NextWorkers ==
    /\ \/ \E p \in Workers, s \in WorkerSessions : WAddModel(p, s)
       \/ \E p \in Workers, s \in WorkerSessions : WUpdateProvider(p, s)
       \/ \E p \in Workers, s \in WorkerSessions : WRestoreDelete(p, s)
       \/ \E p \in Workers : WRestoreRebuild(p)
       \/ \E p \in Workers : SnapshotRead(p)
       \/ \E p \in Workers : SnapshotWrite(p)
    /\ BoundedWorkers(db')

SpecWorkers == InitWorkers /\ [][NextWorkers]_vars

(***************************************************************************)
(* The creation of users and the project resolver, served by several       *)
(* workers at once, from the empty store.                                  *)
(***************************************************************************)
\* setup: the count of the user table, read in a statement of its own
PSetupCheck(p, s) ==
    \E n \in UserNames :
        /\ procs[p] = Idle
        /\ db.users = {}
        /\ procs' = [procs EXCEPT ![p] =
                        [pc |-> "setup_insert", sid |-> s, username |-> n]]
        /\ UNCHANGED <<db, sessions, last>>

\* setup from the username query to the commit of the user row: a username
\* already stored is refused by the query or by the unique index
PSetupInsert(p) ==
    /\ procs[p].pc = "setup_insert"
    /\ IF \E u \in db.users : u.username = procs[p].username
       THEN /\ procs' = [procs EXCEPT ![p] = Idle]
            /\ UNCHANGED db
       ELSE /\ db' = InsertUser(db, procs[p].username, "admin")
            /\ procs' = [procs EXCEPT ![p] =
                            [pc |-> "default_project", sid |-> procs[p].sid,
                             uid |-> NextId(db.users)]]
    /\ UNCHANGED <<sessions, last>>

\* admin_users up to the commit of the user row
PAdminUsers(p, s) ==
    \E n \in UserNames, r \in Roles :
        /\ procs[p] = Idle
        /\ Admitted(db, sessions[s])
        /\ sessions[s].role = "admin"
        /\ ~(\E u \in db.users : u.username = n)
        /\ db' = InsertUser(db, n, r)
        /\ procs' = [procs EXCEPT ![p] =
                        [pc |-> "default_project", sid |-> s,
                         uid |-> NextId(db.users)]]
        /\ UNCHANGED <<sessions, last>>

\* _create_default_project_for_user: the second commit of setup and of
\* admin_users
PDefaultProject(p) ==
    /\ procs[p].pc = "default_project"
    /\ db' = DefaultProjectFor(db, procs[p].uid)
    /\ sessions' = [sessions EXCEPT ![procs[p].sid] =
                       SessionAfterDefaultProject(db, @, procs[p].uid)]
    /\ procs' = [procs EXCEPT ![p] = Idle]
    /\ UNCHANGED last

\* login, which commits nothing
PLogin(s) ==
    \E n \in UserNames :
        LET r == login(db, sessions[s], n, TRUE)
        IN /\ r.ok
           /\ sessions' = [sessions EXCEPT ![s] = r.sess]
           /\ UNCHANGED <<db, procs, last>>

\* _current_project_id of a request with no project in its session: the
\* query for the default project
PResolveRead(p, s) ==
    /\ procs[p] = Idle
    /\ Admitted(db, sessions[s])
    /\ sessions[s].project_id = 0
    /\ LET defs == DefaultProjectsOf(db, sessions[s].user_id)
       IN IF defs # {}
          THEN /\ sessions' = [sessions EXCEPT ![s].project_id = Min(Ids(defs))]
               /\ UNCHANGED procs
          ELSE /\ procs' = [procs EXCEPT ![p] =
                               [pc |-> "create_default", sid |-> s,
                                uid |-> sessions[s].user_id]]
               /\ UNCHANGED sessions
    /\ UNCHANGED <<db, last>>

\* _current_project_id: the default project created on the fly
PResolveCreate(p) ==
    /\ procs[p].pc = "create_default"
    /\ db' = LazyDefaultProject(db, procs[p].uid)
    /\ sessions' = [sessions EXCEPT ![procs[p].sid].project_id = NextId(db.projects)]
    /\ procs' = [procs EXCEPT ![p] = Idle]
    /\ UNCHANGED last

BoundedProjects(d) ==
    /\ Cardinality(d.users) <= MaxUsers
    /\ Cardinality(d.projects) <= MaxLazyProjects

NextProjects ==
    /\ \/ \E p \in Procs, s \in Sessions : PSetupCheck(p, s)
       \/ \E p \in Procs : PSetupInsert(p)
       \/ \E p \in Procs, s \in Sessions : PAdminUsers(p, s)
       \/ \E p \in Procs : PDefaultProject(p)
       \/ \E s \in Sessions : PLogin(s)
       \/ \E p \in Procs, s \in Sessions : PResolveRead(p, s)
       \/ \E p \in Procs : PResolveCreate(p)
    /\ BoundedProjects(db')

SpecProjects == Init /\ [][NextProjects]_vars

\* C2 as claimed: snapshot_version calls that run at the same time never
\* commit two ConfigVersion rows with the same (config, version) pair.
C2_NoDuplicateVersion ==
    \A v1 \in db.versions, v2 \in db.versions :
        (v1.config_id = v2.config_id /\ v1.version = v2.version) => v1 = v2

\* the snapshot to restore holds a model
HasModels(data) == \E f \in VALID_FAMILIES : Get(data, f, <<>>) # <<>>

\* C5 as claimed: no committed state has the live rows of a config deleted
\* by restore_version without the rebuilt rows in place.
C5_RestoreAllOrNothing ==
    \A p \in Procs :
        (procs[p].pc = "restore_rebuild" /\ HasModels(procs[p].data))
            => ModelsOf(db, procs[p].cid) # {}

\* C8 as claimed: each user has at most one project flagged is_default,
\* whatever the interleaving of user creation and the project resolver.
C8_OneDefaultProjectPerUser ==
    \A u \in db.users : Cardinality(DefaultProjectsOf(db, u.id)) <= 1

(***************************************************************************)
(* SpecModels: the models of the configs of two users, added and deleted,  *)
(* requests one at a time, from the state of InitEdit.                     *)
(***************************************************************************)
BoundedModels(d) ==
    /\ Cardinality(d.configs) <= MaxModelConfigs
    /\ Cardinality(d.models) <= MaxModelRows
    /\ \A c \in d.configs : Cardinality(VersionsOf(d, c.id)) <= MaxModelVersions
    /\ IdsWithin(d.configs, MaxModelConfigs)
    /\ IdsWithin(d.models, MaxModelRows + 1)
    /\ IdsWithin(d.versions, MaxModelConfigs * MaxModelVersions)

NextModels ==
    /\ \/ Deliver
       \/ \E s \in Sessions : NewConfig(s)
       \/ \E s \in Sessions : AddModel(s)
       \/ \E s \in Sessions : DeleteModel(s)
    /\ BoundedModels(db')

SpecModels == InitEdit /\ [][NextModels]_vars

\* the Model rows of a config with this family and name
ModelsNamed(d, cid, fam, name) ==
    {m \in ModelsOf(d, cid) : m.family = fam /\ m.name = name}

\* C11: no config holds two Model rows with the same (family, name); in
\* every reachable state add_model by the owner answers 400 and writes
\* nothing when the config already holds the family and name, and adds
\* exactly that Model row when the family is valid and the config does not
\* hold it, whatever the other family and the other configs hold.
C11_ModelsUniquePerFamily ==
    /\ \A c \in db.configs, fam \in ModelFamilies, n \in ModelNames :
          Cardinality(ModelsNamed(db, c.id, fam, n)) <= 1
    /\ \A s \in Sessions, c \in db.configs, fam \in ModelFamilies, n \in ModelNames :
          LET r == add_model(db, sessions[s], c.id, fam, n)
          IN (Admitted(db, sessions[s]) /\ c.user_id = sessions[s].user_id) =>
                IF ModelsNamed(db, c.id, fam, n) # {}
                THEN ~r.ok /\ r.code = 400 /\ r.db = db
                ELSE fam \in VALID_FAMILIES =>
                        /\ r.ok
                        /\ Cardinality(ModelsNamed(r.db, c.id, fam, n)) = 1
                        /\ Cardinality(r.db.models) = Cardinality(db.models) + 1
                        /\ db.models \subseteq r.db.models

\* an add_model answered 400 on a config that holds the model name in both
\* of its families, while another config holds the same family and name
C11_Witness ==
    /\ last.op = "add_model" /\ ~last.ok /\ last.code = 400
    /\ ModelsNamed(db, last.arg, "openai_models", "m") # {}
    /\ ModelsNamed(db, last.arg, "qwen_models", "m") # {}
    /\ \E c \in db.configs :
          c.id # last.arg /\ ModelsNamed(db, c.id, "openai_models", "m") # {}

\* the config a model or provider request works on
TargetConfig(d, op, arg) ==
    IF op = "add_model" THEN arg
    ELSE IF op \in ModelRequests THEN Row(d.models, arg).config_id
    ELSE Row(d.models, Row(d.providers, arg).model_id).config_id

VersionCount(d, cid) == Cardinality(VersionsOf(d, cid))

\* C12: a successful add_model, delete_model, add_provider,
\* reorder_providers, update_provider or delete_provider leaves the config
\* it works on with exactly one more version when its response is returned
\* and adds no version to another config; a rejected one adds no version.
C12_OneVersionPerMutation ==
    [][last'.op \in {"add_model"} \cup ModelRequests \cup ProviderRequests =>
          IF last'.ok
          THEN LET cid == TargetConfig(db, last'.op, last'.arg)
               IN /\ VersionCount(db', cid) = VersionCount(db, cid) + 1
                  /\ Cardinality(db'.versions) = Cardinality(db.versions) + 1
                  /\ db.versions \subseteq db'.versions
          ELSE db'.versions = db.versions]_vars

\* a provider deleted from a config that then holds the versions of its
\* import and of the deletion
C12_Witness ==
    /\ last.op = "delete_provider" /\ last.ok
    /\ \E c \in db.configs :
          /\ VersionCount(db, c.id) = 2
          /\ NewestVersion(db, c.id).note[1] = "Deleted provider "

\* C13 as claimed: no committed state shows a mutation of a config without
\* the ConfigVersion row that snapshots it: whenever a request has
\* committed its mutation, a version row with its note and with the live
\* JSON of the config is in the store.
C13_MutationCommittedWithVersion ==
    \A p \in Procs :
        procs[p].pc \in {"snapshot_read", "snapshot_write"} =>
            \E v \in VersionsOf(db, procs[p].cid) :
                v.note = procs[p].note /\ v.json_blob = to_json(db, procs[p].cid)

(***************************************************************************)
(* SpecRoundTrip: configs imported, their providers updated, and the       *)
(* export of a config imported again as a new config.                      *)
(***************************************************************************)
\* export_config: the JSON of a config of the session's user, as the file
\* the browser downloads
export_config(d, se, cid) == to_json(d, cid)

\* the downloaded file of config c uploaded to import_config
ReimportExport(s) ==
    \E c \in db.configs, n \in RenameNames :
        /\ UserConfigExists(db, sessions[s], c.id)
        /\ Respond("import_export", s, c.id, 0,
                   import_config(db, sessions[s], n, TRUE,
                                 export_config(db, sessions[s], c.id)))

BoundedRoundTrip(d) ==
    /\ Cardinality(d.configs) <= MaxTripConfigs
    /\ Cardinality(d.models) <= MaxModels
    /\ Cardinality(d.providers) <= MaxTripProviders
    /\ \A c \in d.configs : Cardinality(VersionsOf(d, c.id)) <= MaxTripVersions
    /\ IdsWithin(d.configs, MaxTripConfigs)

NextRoundTrip ==
    /\ \/ Deliver
       \/ \E s \in Sessions : ImportConfig(s)
       \/ \E s \in Sessions : UpdateProvider(s)
       \/ \E s \in Sessions : ReimportExport(s)
    /\ BoundedRoundTrip(db')

SpecRoundTrip == InitEdit /\ [][NextRoundTrip]_vars

\* the config with the highest id: the one the last import created
NewestConfig(d) == Max(Ids(d.configs))

\* C14 as claimed: the export of a config that was imported from the
\* export X of another config equals X: same models per family, same
\* providers per model in the same order with the same fields, same active
\* models.
C14_ExportImportRoundTrip ==
    (last.op = "import_export" /\ last.ok) =>
        to_json(db, NewestConfig(db)) = to_json(db, last.arg)

\* C15: an import_config request that does not succeed (malformed JSON, a
\* name the user already uses, or a failure while the models of the blob
\* are loaded) leaves no Config, Model, Provider, ActiveModel or
\* ConfigVersion row behind, and one rejected by redirect writes nothing.
C15_ImportAllOrNothing ==
    [][(last'.op = "import_config" /\ ~last'.ok) =>
          /\ db'.configs = db.configs
          /\ db'.models = db.models
          /\ db'.providers = db.providers
          /\ db'.actives = db.actives
          /\ db'.versions = db.versions
          /\ last'.code = 302 => db' = db]_vars

\* an import that raised while loading its models, after its Config row
\* was added to the session, in a store that holds an imported config
C15_Witness ==
    /\ last.op = "import_config" /\ ~last.ok /\ last.code = 500
    /\ \E v \in db.versions : v.note = <<"Import JSON">>

(***************************************************************************)
(* SpecReorder: one config whose models get providers that are reordered.  *)
(***************************************************************************)
BoundedReorder(d) ==
    /\ Cardinality(d.configs) <= MaxEditConfigs
    /\ Cardinality(d.models) <= MaxModels
    /\ Cardinality(d.providers) <= MaxReorderProviders
    /\ \A c \in d.configs : Cardinality(VersionsOf(d, c.id)) <= MaxReorderVersions

NextReorder ==
    /\ \/ Deliver
       \/ \E s \in Sessions : ImportConfig(s)
       \/ \E s \in Sessions : AddModel(s)
       \/ \E s \in Sessions : AddProvider(s)
       \/ \E s \in Sessions : ReorderProviders(s)
    /\ BoundedReorder(db')

SpecReorder == InitEdit /\ [][NextReorder]_vars

\* the lists of two or three different ids, of providers or of none
ReorderTriples(d) ==
    LET ids == Ids(d.providers) \cup {NextId(d.providers)}
    IN {t \in ids \X ids \X ids : t[1] # t[2] /\ t[1] # t[3] /\ t[2] # t[3]}

IndexIn(ids, x) == CHOOSE i \in DOMAIN ids : ids[i] = x

\* C16: in every reachable state reorder_providers(model, ids) answers ok,
\* gives each provider of the model that ids names the order of its
\* (0-based) position in ids, and leaves every other provider, of this
\* model or of another, as it was; ids of no provider are skipped.
C16_ReorderSetsListIndex ==
    \A s \in Sessions, m \in db.models,
       ids \in ReorderLists(db) \cup ReorderTriples(db) :
        LET r == reorder_providers_commit(db, sessions[s], m.id, ids)
        IN Admitted(db, sessions[s]) =>
              /\ r.ok
              /\ Ids(r.db.providers) = Ids(db.providers)
              /\ \A p \in db.providers :
                    Row(r.db.providers, p.id) =
                        IF p.model_id = m.id /\ p.id \in Range(ids)
                        THEN [p EXCEPT !.order = IndexIn(ids, p.id) - 1]
                        ELSE p

\* providers reordered in a model whose two providers now stand in the
\* reverse of the order of their creation, while another model of the
\* config has a provider of its own
C16_Witness ==
    /\ last.op = "reorder_providers" /\ last.ok
    /\ \E p \in db.providers, q \in db.providers :
          /\ p.model_id = last.arg /\ q.model_id = last.arg
          /\ p.id < q.id /\ p.order = 1 /\ q.order = 0
    /\ \E o \in db.providers : o.model_id # last.arg

(***************************************************************************)
(* SpecScenario: from the empty store, users are created and log in, and   *)
(* configs are built by new_config, add_model and add_provider, requests   *)
(* one at a time.                                                          *)
(***************************************************************************)
MaxScenarioModels == 1
MaxScenarioProviders == 1
MaxScenarioVersions == 3

BoundedScenario(d) ==
    /\ Cardinality(d.users) <= MaxUsers
    /\ Cardinality(d.configs) <= MaxConfigs
    /\ Cardinality(d.models) <= MaxScenarioModels
    /\ Cardinality(d.providers) <= MaxScenarioProviders
    /\ \A c \in d.configs :
          Cardinality(VersionsOf(d, c.id)) <= MaxScenarioVersions
    /\ IdsWithin(d.projects, MaxProjects)

NextScenario ==
    /\ \/ Deliver
       \/ \E s \in Sessions : Setup(s)
       \/ \E s \in Sessions : AdminUsers(s)
       \/ \E s \in Sessions : Login(s)
       \/ \E s \in Sessions : NewConfig(s)
       \/ \E s \in Sessions : AddModel(s)
       \/ \E s \in Sessions : AddProvider(s)
    /\ BoundedScenario(db')

SpecScenario == Init /\ [][NextScenario]_vars

ProjectsOfUser(d, uid) == {p \in d.projects : p.user_id = uid}

\* the config holds one model, of family openai_models, and that model one
\* provider, of api_type openai
OneOpenAiProvider(d, cid) ==
    /\ Cardinality(ModelsOf(d, cid)) = 1
    /\ \A m \in ModelsOf(d, cid) :
          /\ m.family = "openai_models"
          /\ Cardinality(ProvidersOf(d, m.id)) = 1
          /\ \A p \in ProvidersOf(d, m.id) : p.api_type = "openai"

\* C17: every user created by setup or admin_users has exactly one project
\* and it is flagged default; and a config built by new_config, one
\* add_model in openai_models and one add_provider of api_type openai has
\* exactly the versions 1, 2, 3 and an export with exactly one provider
\* under that model.
C17_NewUserBuildsConfig ==
    /\ \A u \in db.users :
          /\ Cardinality(ProjectsOfUser(db, u.id)) = 1
          /\ \A p \in ProjectsOfUser(db, u.id) : p.is_default
    /\ \A c \in db.configs :
          OneOpenAiProvider(db, c.id) =>
              /\ Cardinality(VersionsOf(db, c.id)) = 3
              /\ VersionNumbers(db, c.id) = {1, 2, 3}
              /\ \A m \in ModelsOf(db, c.id) :
                    LET fam == export_config(db, sessions[1], c.id).openai_models
                    IN /\ Len(fam) = 1
                       /\ fam[1].name = m.name
                       /\ Len(fam[1].val.providers) = 1

C17_Witness ==
    /\ last.op = "add_provider" /\ last.ok
    /\ \E u \in db.users, c \in db.configs :
          /\ u.role = "user"
          /\ sessions[last.sid].user_id = u.id
          /\ c.user_id = u.id
          /\ OneOpenAiProvider(db, c.id)
          /\ Cardinality(VersionsOf(db, c.id)) = 3

\* a step of setup that commits a user row
SetupCreates(p) ==
    /\ procs[p].pc = "setup_insert"
    /\ procs'[p].pc = "default_project"

\* C18 as claimed: setup commits a user row only in a state with no user,
\* also when two setup requests interleave.
C18_SetupOnlyWithNoUser ==
    [][\A p \in Procs : SetupCreates(p) => db.users = {}]_vars

\* C19 as claimed: in every reachable state no user owns two projects with
\* the same name.
C19_ProjectNamesUniquePerUser ==
    \A p \in db.projects, q \in db.projects :
        (p.user_id = q.user_id /\ p.name = q.name) => p.id = q.id

(***************************************************************************)
(* SpecNames: the names of configs, with the projects and sessions they    *)
(* are created in, requests one at a time, from the state of InitEdit.     *)
(***************************************************************************)
MaxNameConfigs == 2
\* blobs with models are imported in SpecConfigs and SpecEdit
MaxNameModels == 0

BoundedNames(d) ==
    /\ Cardinality(d.projects) <= MaxProjects
    /\ Cardinality(d.configs) <= MaxNameConfigs
    /\ Cardinality(d.models) <= MaxNameModels
    /\ IdsWithin(d.projects, MaxProjects)
    /\ IdsWithin(d.configs, MaxNameConfigs)

NextNames ==
    /\ \/ Deliver
       \/ \E s \in Sessions : Login(s)
       \/ \E s \in Sessions : Logout(s)
       \/ \E s \in Sessions : SelectProject(s)
       \/ \E s \in Sessions : ManageProjects(s)
       \/ \E s \in Sessions : DeleteProject(s)
       \/ \E s \in Sessions : NewConfig(s)
       \/ \E s \in Sessions : ImportConfig(s)
       \/ \E s \in Sessions : RenameConfig(s)
    /\ BoundedNames(db')

SpecNames == InitEdit /\ [][NextNames]_vars

\* C20 as claimed: with requests run one at a time, no two configs of the
\* same project have the same name.
C20_ConfigNamesUniquePerProject ==
    \A c1 \in db.configs, c2 \in db.configs :
        (c1.project_id = c2.project_id /\ c1.name = c2.name) => c1.id = c2.id

(***************************************************************************)
(* SpecCascade: two configs with models, providers, active models and      *)
(* versions, built, restored and deleted, requests one at a time, from the *)
(* state of InitEdit.                                                      *)
(***************************************************************************)
MaxCascadeConfigs == 2
MaxCascadeModels == 3
MaxCascadeProviders == 4
MaxCascadeVersions == 2

BoundedCascade(d) ==
    /\ Cardinality(d.configs) <= MaxCascadeConfigs
    /\ Cardinality(d.models) <= MaxCascadeModels
    /\ Cardinality(d.providers) <= MaxCascadeProviders
    /\ \A c \in d.configs : Cardinality(VersionsOf(d, c.id)) <= MaxCascadeVersions
    /\ IdsWithin(d.configs, MaxCascadeConfigs)
    /\ IdsWithin(d.models, MaxCascadeModels)
    /\ IdsWithin(d.providers, MaxCascadeProviders)

NextCascade ==
    /\ \/ Deliver
       \/ \E s \in Sessions : ImportConfig(s)
       \/ \E s \in Sessions : AddModel(s)
       \/ \E s \in Sessions : DeleteModel(s)
       \/ \E s \in Sessions : RestoreVersion(s)
       \/ \E s \in Sessions : DeleteConfig(s)
    /\ BoundedCascade(db')

SpecCascade == InitEdit /\ [][NextCascade]_vars

\* every child row has its parent
NoOrphans(d) ==
    /\ \A p \in d.providers : p.model_id \in Ids(d.models)
    /\ \A m \in d.models : m.config_id \in Ids(d.configs)
    /\ \A a \in d.actives : a.config_id \in Ids(d.configs)
    /\ \A v \in d.versions : v.config_id \in Ids(d.configs)

\* the rows that belong to config cid
RowsOfConfig(d, cid) ==
    [models |-> ModelsOf(d, cid),
     providers |-> {p \in d.providers :
                       \E m \in ModelsOf(d, cid) : p.model_id = m.id},
     actives |-> ActivesOf(d, cid),
     versions |-> VersionsOf(d, cid)]

WithoutProject(se) == [se EXCEPT !.project_id = 0]

\* C22: in every reachable state, for every logged-in session, three
\* resolutions of the current project in a row, each with no project id in
\* the session, return the same project; that project is flagged default
\* and owned by the session's user; the first resolution adds at most one
\* project row and the later ones add none.
C22_ResolveIsIdempotent ==
    \A s \in Sessions :
        Admitted(db, sessions[s]) =>
            LET r1 == CurrentProject(db, WithoutProject(sessions[s]))
                r2 == CurrentProject(r1.db, WithoutProject(r1.sess))
                r3 == CurrentProject(r2.db, WithoutProject(r2.sess))
            IN /\ r2.pid = r1.pid /\ r3.pid = r1.pid
               /\ r1.sess.project_id = r1.pid
               /\ \E p \in r1.db.projects :
                     /\ p.id = r1.pid /\ p.is_default
                     /\ p.user_id = sessions[s].user_id
               /\ db.projects \subseteq r1.db.projects
               /\ Cardinality(r1.db.projects \ db.projects) <= 1
               /\ r2.db = r1.db /\ r3.db = r1.db

\* both sessions of one user resolved to the project that the first
\* resolution created, before the user's creation committed its own
C22_Witness ==
    /\ sessions[1].user_id # 0
    /\ sessions[1].user_id = sessions[2].user_id
    /\ sessions[1].project_id # 0
    /\ sessions[1].project_id = sessions[2].project_id
    /\ Cardinality(DefaultProjectsOf(db, sessions[1].user_id)) = 1
    /\ \E p \in Procs : /\ procs[p].pc = "default_project"
                        /\ procs[p].uid = sessions[1].user_id
    /\ \A p \in Procs : procs[p].pc # "create_default"

\* the list holds one entry for each provider of ps, once each, in
\* ascending order value
ListsInOrder(list, ps) ==
    /\ Len(list) = Cardinality(ps)
    /\ \E f \in [DOMAIN list -> ps] :
          /\ \A i \in DOMAIN list, j \in DOMAIN list : f[i] = f[j] => i = j
          /\ \A i \in DOMAIN list : list[i] = ProviderJson(f[i])
          /\ \A i \in DOMAIN list, j \in DOMAIN list :
                i < j => f[i].order <= f[j].order

EnabledProvidersOf(d, mid) == {p \in ProvidersOf(d, mid) : p.enabled}

\* C23: in every reachable state, a snapshot taken of any config adds one
\* ConfigVersion row and changes no Model, Provider or ActiveModel row; its
\* JSON has, in each family, one entry per model of the config, and the
\* entry of a model lists exactly the model's enabled providers, in
\* ascending order value.
C23_SnapshotListsEnabledProviders ==
    \A c \in db.configs :
        LET d2 == snapshot_version(db, c.id, <<"note">>)
        IN /\ d2.models = db.models
           /\ d2.providers = db.providers
           /\ d2.actives = db.actives
           /\ db.versions \subseteq d2.versions
           /\ Cardinality(d2.versions \ db.versions) = 1
           /\ \A v \in d2.versions \ db.versions, fam \in VALID_FAMILIES :
                 LET ms == {m \in ModelsOf(db, c.id) : m.family = fam}
                     dict == v.json_blob[fam]
                 IN /\ Len(dict) = Cardinality(ms)
                    /\ \A m \in ms :
                          \E i \in DOMAIN dict :
                             /\ dict[i].name = m.name
                             /\ ListsInOrder(dict[i].val.providers,
                                             EnabledProvidersOf(db, m.id))

\* the newest version of a config lists one provider of a model that holds
\* two, the other being disabled
C23_Witness ==
    /\ last.op = "update_provider" /\ last.ok
    /\ \E c \in db.configs, m \in db.models :
          /\ m.config_id = c.id
          /\ Cardinality(ProvidersOf(db, m.id)) = 2
          /\ Cardinality(EnabledProvidersOf(db, m.id)) = 1
          /\ LET dict == NewestVersion(db, c.id).json_blob[m.family]
             IN \E i \in DOMAIN dict :
                   /\ dict[i].name = m.name
                   /\ Len(dict[i].val.providers) = 1

\* C24 as claimed: in every reachable state the api_type of each Provider
\* is one of vllm, openai, ollama.
C24_ApiTypeInClosedSet ==
    \A p \in db.providers : p.api_type \in ApiTypes

\* C25: in every reachable state, a successful add_provider on any model
\* adds one provider whose order is strictly greater than the order of
\* every provider the model already has, so that it comes last in the
\* model's provider list.
C25_AddedProviderIsLast ==
    \A s \in Sessions, m \in db.models, payload \in AddPayloads :
        LET r == add_provider_commit(db, sessions[s], m.id, payload)
            new == r.db.providers \ db.providers
        IN r.ok =>
              /\ Cardinality(new) = 1
              /\ db.providers \subseteq r.db.providers
              /\ \A p \in new :
                    /\ p.model_id = m.id
                    /\ \A q \in ProvidersOf(db, m.id) : p.order > q.order
                    /\ LET list == RowsByOrder(ProvidersOf(r.db, m.id))
                       IN list[Len(list)] = p

\* a provider added to a model after an import and a delete left the model
\* one provider of order 0
C25_Witness ==
    /\ last.op = "add_provider" /\ last.ok
    /\ \E p \in db.providers, q \in db.providers :
          /\ p.model_id = last.arg /\ q.model_id = last.arg
          /\ q.id < p.id /\ q.order = 0 /\ p.order = 1

\* payloads that name text fields, one field or several
TextPayloads ==
    {[api_host |-> "h2"], [provider_id |-> "z", model_path |-> "/m"],
     [api_token |-> "t", enabled |-> FALSE, weight |-> 3]}

ProviderFields ==
    {"provider_id", "api_host", "api_token", "api_type", "model_path",
     "input_size", "weight", "enabled"}

\* C26: in every reachable state, the commit of update_provider, for any
\* provider and any payload, gives each field that the payload names the
\* payload's value and leaves every other field of the provider, its id,
\* model and order included, and every other provider, model and active
\* model as it was; the snapshot that follows changes none of these rows
\* and adds one version; a payload whose input_size or weight is no number
\* is refused and leaves the whole store, versions included, as it was.
C26_UpdateChangesNamedFieldsOnly ==
    \A s \in Sessions, p \in db.providers :
        /\ \A payload \in UpdatePayloads \cup TextPayloads :
              LET t == update_provider_commit(db, sessions[s], p.id, payload)
                  q == Row(t.db.providers, p.id)
              IN t.ok =>
                    /\ t.db.models = db.models
                    /\ t.db.actives = db.actives
                    /\ t.db.versions = db.versions
                    /\ Ids(t.db.providers) = Ids(db.providers)
                    /\ \A o \in db.providers \ {p} : o \in t.db.providers
                    /\ q.model_id = p.model_id
                    /\ q.order = p.order
                    /\ \A f \in ProviderFields :
                          q[f] = IF f \in DOMAIN payload
                                 THEN payload[f] ELSE p[f]
        /\ \A payload \in TextPayloads :
              LET t == update_provider_commit(db, sessions[s], p.id, payload)
                  r == update_provider(db, sessions[s], p.id, payload)
              IN r.ok =>
                    /\ [r.db EXCEPT !.versions = {}] =
                          [t.db EXCEPT !.versions = {}]
                    /\ Cardinality(r.db.versions) = Cardinality(db.versions) + 1
        /\ \A payload \in UncoercedPayloads :
              LET r == update_provider(db, sessions[s], p.id, payload)
              IN Admitted(db, sessions[s]) =>
                    /\ ~r.ok
                    /\ r.db = db

\* a provider that add_provider gave order 1 was disabled and kept its order
C26_Witness ==
    /\ last.op = "update_provider" /\ last.ok
    /\ \E p \in db.providers, o \in db.providers :
          /\ p.id = last.arg /\ ~p.enabled /\ p.order = 1
          /\ o.id # p.id /\ o.enabled

(***************************************************************************)
(* SpecUsers: the users, their roles and their blocking, with the logins   *)
(* and the configs of the users, requests one at a time, from the empty    *)
(* store.                                                                  *)
(***************************************************************************)
BoundedUsers(d) ==
    /\ Cardinality(d.users) <= MaxUsers
    /\ Cardinality(d.configs) <= MaxConfigs
    /\ IdsWithin(d.projects, MaxProjects)
    /\ IdsWithin(d.configs, MaxConfigs)
    /\ IdsWithin(d.versions, MaxConfigs)

NextUsers ==
    /\ \/ Deliver
       \/ \E s \in Sessions : Setup(s)
       \/ \E s \in Sessions : AdminUsers(s)
       \/ \E s \in Sessions : EditUser(s)
       \/ \E s \in Sessions : ToggleBlockUser(s)
       \/ \E s \in Sessions : Login(s)
       \/ \E s \in Sessions : Logout(s)
       \/ \E s \in Sessions : NewConfig(s)
       \/ \E s \in Sessions : DeleteConfig(s)
    /\ BoundedUsers(db')

SpecUsers == Init /\ [][NextUsers]_vars

\* C27 as claimed: in every reachable state each user's role is admin or
\* user.
C27_RoleIsAdminOrUser ==
    \A u \in db.users : u.role \in Roles


(***************************************************************************)
(* The newest version against the live rows (SpecWorkers).                 *)
(***************************************************************************)
\* no worker is between the start of a request and its response
NoRequestInFlight == \A p \in Procs : procs[p] = Idle

\* C28 as claimed: when no request is in flight, the JSON of the
\* highest-numbered version of each config that has a version equals the
\* serialization of the config's live models, enabled providers and active
\* models.
C28_NewestVersionMatchesLiveRows ==
    NoRequestInFlight =>
        \A c \in db.configs :
            \A v \in VersionsOf(db, c.id) :
                v.version = LastVersion(db, c.id)
                    => v.json_blob = to_json(db, c.id)


(***************************************************************************)
(* The project of a config (SpecNames).                                    *)
(***************************************************************************)
\* C29 as claimed: each config's project_id names a stored project of the
\* config's user, also when one session of the user deletes the project
\* another session of the same user has selected.
C29_ConfigProjectExistsAndIsOwned ==
    \A c \in db.configs :
        \E p \in db.projects : p.id = c.project_id /\ p.user_id = c.user_id


(***************************************************************************)
(* Blocked users (SpecUsers).                                              *)
(***************************************************************************)
\* the user of session s is stored with is_active false
Blocked(d, se) ==
    /\ se.user_id \in Ids(d.users)
    /\ ~Row(d.users, se.user_id).is_active

\* C30 as claimed: no step logs a session in as a user stored with
\* is_active false, and no request made through a session whose user is
\* blocked changes the stored data.
C30_BlockedUserChangesNothing ==
    [][\A s \in Sessions :
          /\ (sessions[s].user_id = 0 /\ sessions'[s].user_id # 0)
                => ~Blocked(db', sessions'[s])
          /\ (last'.sid = s /\ Blocked(db, sessions[s])) => db' = db]_vars

====
